---- MODULE Spec2Model ----
(***************************************************************************)
(* Model of the Trading Bot Mini App dashboard (src/app.js, src/api.js).   *)
(*                                                                         *)
(* src/app.js holds two implementations of the same dashboard:             *)
(*   "fn"    - the function variant (lines 1-550): a global `state`        *)
(*             object, loadAllData guarded by state.loading;               *)
(*   "class" - the TradingApp class variant (lines 552-994).               *)
(* `variant` selects which of the two programs is running; it never        *)
(* changes.  Both talk to the backend through TradingAPI.request.          *)
(*                                                                         *)
(* Execution is a single-threaded event loop.  One action is one handler   *)
(* or one promise continuation run to its next await: a click, a timer     *)
(* tick, or the arrival of one response together with everything the       *)
(* awaiting code does until it awaits again.                               *)
(***************************************************************************)
EXTENDS Integers, Sequences, FiniteSets, TLC

VARIABLES
    variant,      \* "fn" | "class": which implementation runs
    listeners,    \* setupEventListeners has run
    timers,       \* number of live setInterval timers
    visible,      \* document.visibilityState === 'visible'
    currentTab,   \* state.currentTab / this.currentTab
    portfolio,    \* state.portfolio: id of the stored response, 0 = null
    history,      \* state.history
    signals,      \* state.signals
    equityChart,  \* state.equityChart / this.charts.equity: chart id, 0 = none
    loading,      \* state.loading
    refreshBtn,   \* refresh button accepts clicks (pointer-events: auto)
    net,          \* requests in flight
    nextId,       \* id of the next request; ids grow in issue order
    budget,       \* requests the handlers may still issue
    events,       \* clicks, ticks and page events the model may still run
    ops,          \* loadAllData / toggleAI invocations, in start order
    shown,        \* per DOM part: id of the response it was rendered from
    charts,       \* Chart instances created and not destroyed
    ev,           \* the handler or continuation that ran last
    aiEnabled,    \* backend: the authoritative AI flag (on at page load)
    aiStatus,     \* the AI state the overview shows: "none", "active", "inactive"
    toggled,      \* the last answered toggle-AI command of this client
    loadingScreen,\* class: the loading screen is displayed
    portfolioList,\* the portfolio list element of the page
    last,         \* the last call of a renderer or of the API client
    page,         \* overview header, statistics, signal list, history list
    clock         \* the time new Date() reads, in minutes

vars == <<variant, listeners, timers, visible, currentTab, portfolio, history,
          signals, equityChart, loading, refreshBtn, net, nextId, budget,
          events, ops, shown, charts, ev, aiEnabled, aiStatus, toggled,
          loadingScreen, portfolioList, last, page, clock>>

\* What the handlers of the dashboard leave alone unless they say otherwise.
aiVars == <<aiEnabled, aiStatus, toggled>>

renderVars == <<page, clock>>

pureVars == <<portfolioList, last, renderVars>>

----------------------------------------------------------------------------
(* Bounds *)

\* Clicks, timer ticks and visibility changes, at most.
MaxEvents == 2

\* Entries of a position map, at most.
MaxPositions == 2

\* A pnl is an integer in -MaxPnl..MaxPnl, or is missing.
MaxPnl == 1

\* Points of an equity series, at most.
MaxPoints == 3

\* Minutes the clock advances, at most.
MaxClock == 2

----------------------------------------------------------------------------
(* Vocabulary *)

Variants == {"fn", "class"}

Tabs == {"overview", "portfolio", "signals", "history"}

\* The loaders: one independent try/catch each.
Loaders == {"overview", "portfolio", "signals", "history", "equity"}

\* The DOM parts a response is rendered into.
DomParts == {"overview", "positions", "signals", "history", "stats"}

\* TradingAPI.request: one fetch; a non-ok status or a body that is not JSON
\* rejects, otherwise the parsed payload is returned.
Outcomes(k) ==
    IF k = "loadEquityCurve"
    THEN {[ok |-> TRUE, data |-> "points"], [ok |-> TRUE, data |-> "empty"],
          [ok |-> FALSE, data |-> "error"]}
    ELSE IF k = "toggleAI"
    THEN {[ok |-> TRUE, data |-> "AI on"], [ok |-> TRUE, data |-> "AI off"],
          [ok |-> FALSE, data |-> "error"]}
    ELSE {[ok |-> TRUE, data |-> "json"], [ok |-> FALSE, data |-> "error"]}

\* The trade calls of TradingApp: API.buyCoin, API.sellCoin.
TradeLabels == {"buyCoin", "sellCoin"}

\* POST /trade/buy, POST /trade/sell answer {success, message}; the client
\* returns the payload as it is, or rejects as every request does.
TradeOutcomes ==
    {[ok |-> TRUE, data |-> "success"], [ok |-> TRUE, data |-> "no success"],
     [ok |-> FALSE, data |-> "error"]}

\* confirm(): OK or Cancel.
ConfirmAnswers == {"ok", "cancel"}

\* prompt(): null on Cancel (written "<null>"), else the text of the field.
PromptAnswers == {"<null>", "", "100"}

Req(id, k, op) == [id |-> id, k |-> k, op |-> op, rendered |-> FALSE]

\* The requests a handler issues synchronously, in call order.
NewReqs(ks, op, base) == {Req(base + i - 1, ks[i], op) : i \in 1..Len(ks)}

Range(s) == {s[i] : i \in 1..Len(s)}

\* The loader a request belongs to.
LoaderOf(v, k) ==
    CASE k = "loadPortfolio" -> "portfolio"
      [] k = "loadHistory" -> "history"
      [] k = "loadSignals" -> "signals"
      [] k = "loadOverview" -> "overview"
      [] k = "loadOverviewStats" -> "overview"
      [] k = "loadEquityCurve" -> IF v = "fn" THEN "equity" ELSE "overview"
      [] OTHER -> "none"

\* The DOM parts the continuation of a successful request replaces.
\* fn: renderPortfolio also renders the positions list, loadHistory also
\* renders the stats; class: each loader writes its own container.
Parts(v, k) ==
    IF v = "fn"
    THEN CASE k = "loadPortfolio" -> {"overview", "positions"}
           [] k = "loadHistory" -> {"history", "stats"}
           [] k = "loadSignals" -> {"signals"}
           [] OTHER -> {}
    ELSE CASE k = "loadOverview" -> {"overview"}
           [] k = "loadOverviewStats" -> {"stats"}
           [] k = "loadPortfolio" -> {"positions"}
           [] k = "loadSignals" -> {"signals"}
           [] k = "loadHistory" -> {"history"}
           [] OTHER -> {}

\* The loaders loadAllData starts, in call order.
LoadAllLabels(v) ==
    IF v = "fn"
    THEN <<"loadPortfolio", "loadHistory", "loadEquityCurve">>
    ELSE <<"loadOverview", "loadPortfolio", "loadSignals", "loadHistory">>

\* TradingApp.loadTabData: the loader of one tab.
TabLabel(t) ==
    CASE t = "overview" -> "loadOverview"
      [] t = "portfolio" -> "loadPortfolio"
      [] t = "signals" -> "loadSignals"
      [] t = "history" -> "loadHistory"

\* What the continuation of request k issues next (at most one request).
\* fn toggleAITrading: after the POST, loadPortfolio.
\* class loadOverview: getPortfolio, then loadEquityCurve (its own try/catch,
\* so the chain goes on whether it failed or not), then getHistory(100);
\* class toggleAI: after the POST, loadOverview.
Follow(v, k, ok) ==
    IF v = "fn"
    THEN IF k = "toggleAI" /\ ok THEN <<"loadPortfolio">> ELSE <<>>
    ELSE CASE k = "toggleAI" /\ ok -> <<"loadOverview">>
           [] k = "loadOverview" /\ ok -> <<"loadEquityCurve">>
           [] k = "loadEquityCurve" -> <<"loadOverviewStats">>
           [] OTHER -> <<>>

\* The requests that follow the response of k are issued by the same call
\* of the same loader: TradingApp.loadOverview awaits its three fetches one
\* after another.  (After a toggle a new loader call starts.)
InLoader(v, k) == v = "class" /\ k \in {"loadOverview", "loadEquityCurve"}

\* Requests a loader issues from start to end, at most.
Cost(v, k) ==
    IF v = "class" /\ k = "loadOverview" THEN 3 ELSE 1

RECURSIVE SumCost(_, _)
SumCost(v, ks) ==
    IF ks = <<>> THEN 0 ELSE Cost(v, Head(ks)) + SumCost(v, Tail(ks))

CostToggle(v) == 1 + SumCost(v, Follow(v, "toggleAI", TRUE))

\* closePosition / buyCoin: the loadAllData they may start (their POST is
\* not counted against the budget).
CostTrade(v) == SumCost(v, LoadAllLabels(v))

\* Requests issued after the initial load, at most: what the largest
\* handler (a full reload of the class variant) issues, so that every
\* handler can run.  The number of handlers is bounded by MaxEvents.
MaxReq == SumCost("class", LoadAllLabels("class"))

NoRes == [l \in Loaders |-> "none"]

NewOp(kind, cause, pc, waiting) ==
    [kind |-> kind, cause |-> cause, pc |-> pc,
     res |-> [l \in Loaders |-> IF l \in waiting THEN "wait" ELSE "none"]]

\* An invocation that has returned: nothing of it is left.
DoneOp == [kind |-> "", cause |-> "", pc |-> "done", res |-> NoRes]

\* A loadAllData that has not returned yet.
ReloadInFlight ==
    \E i \in 1..Len(ops) : ops[i].kind = "loadAllData" /\ ops[i].pc # "done"

\* The record of a handler: what it was, what it issued and (for a
\* response) what came back, what was notified, which invocation returned.
\*   busy      a loadAllData was in flight when the handler started
\*   vis       the document was visible when the handler ran
\*   stale     it rendered a response older than the one it replaced
\*   destroyed the chart destroy() was called on (0 = none)
\*   ret       the invocation that returned in this step, as it ended
\*   input     what the user answered to the handler's confirm() / prompt()
NoEvent ==
    [kind |-> "none", tab |-> "", id |-> 0, k |-> "", ok |-> TRUE, data |-> "",
     issued |-> {}, busy |-> FALSE, vis |-> TRUE, stale |-> FALSE,
     note |-> "", destroyed |-> 0, ret |-> DoneOp, input |-> "",
     partial |-> FALSE]

\* The labels of the requests the step issues.
Issued == {r.k : r \in net' \ net}

Event(kind, tab) ==
    [NoEvent EXCEPT !.kind = kind, !.tab = tab, !.issued = Issued,
                    !.busy = ReloadInFlight, !.vis = visible]

----------------------------------------------------------------------------
(* AI flag *)

\* The requests whose continuation renders the AI state of the overview:
\* fn loadPortfolio (renderPortfolio reads data.enabled), class loadOverview
\* (portfolio.enabled of its getPortfolio).
AiBearing(v, k) ==
    \/ v = "fn" /\ k = "loadPortfolio"
    \/ v = "class" /\ k = "loadOverview"

\* The AI state rendered from the `enabled` field of a portfolio.
AiText(enabled) == IF enabled THEN "active" ELSE "inactive"

\* POST /toggle-ai flips the backend flag and reports the new state.
ToggleMessage(enabled) == IF enabled THEN "AI on" ELSE "AI off"

\* No toggle of this client has been answered yet.
\*   since     requests with a smaller id were issued before the answer
\*   reload    the request the toggle handler issued to re-render
\*   rendered  the response of that request has been rendered
NoToggle == [since |-> 0, reload |-> 0, rendered |-> FALSE]

\* The `enabled` field the response to r may carry: the backend read the
\* flag while r was in flight, before or after the last toggle took effect.
EnabledSeen(r) == IF r.id < toggled.since THEN BOOLEAN ELSE {aiEnabled}

----------------------------------------------------------------------------
(* Chart adapter *)

\* Faulty variant of RenderEquityChart: the held chart is not destroyed.
RenderEquityChartNoDestroy(handle, alive, chartData, id) ==
    IF chartData = "empty"
    THEN [handle |-> handle, alive |-> alive, destroyed |-> 0]
    ELSE [handle |-> id, alive |-> alive \cup {id}, destroyed |-> 0]

\* fn renderEquityChart: destroy the held chart, return on an empty series,
\* else create a chart and store it.  The handle is not cleared on destroy.
RenderEquityChart(handle, alive, chartData, id) ==
    LET torn == IF handle # 0 THEN alive \ {handle} ELSE alive
    IN  IF chartData = "empty"
        THEN [handle |-> handle, alive |-> torn, destroyed |-> handle]
        ELSE [handle |-> id, alive |-> torn \cup {id}, destroyed |-> handle]

\* class loadEquityCurve: return on an empty series before anything else,
\* else destroy the held chart and create a new one.
LoadEquityCurveChart(handle, alive, chartData, id) ==
    IF chartData = "empty"
    THEN [handle |-> handle, alive |-> alive, destroyed |-> 0]
    ELSE [handle |-> id,
          alive |-> (IF handle # 0 THEN alive \ {handle} ELSE alive) \cup {id},
          destroyed |-> handle]

----------------------------------------------------------------------------
(* API client *)

\* What fetch() may come to: a network failure, or a response with a
\* status and a body.
Statuses == {200, 204, 404, 500}

Bodies == {"{\"success\":true}", "{\"enabled\":false}", "", "<html>Bad Gateway</html>"}

Exchanges ==
    {[failed |-> TRUE, status |-> 0, body |-> ""]}
        \cup {[failed |-> FALSE, status |-> st, body |-> b] :
                  st \in Statuses, b \in Bodies}

\* response.ok
ResponseOk(status) == status \in 200..299

\* response.json(): the value of a JSON text, or a SyntaxError.
JsonParse(text) ==
    CASE text = "{\"success\":true}" ->
             [valid |-> TRUE, key |-> "success", val |-> TRUE]
      [] text = "{\"enabled\":false}" ->
             [valid |-> TRUE, key |-> "enabled", val |-> FALSE]
      [] OTHER -> [valid |-> FALSE, key |-> "", val |-> FALSE]

\* The result of a call: the payload it resolved with, or the error it
\* rejected with (with the status its message carries), and the number of
\* fetch() calls made.
Resolved(payload, n) ==
    [kind |-> "value", payload |-> payload, error |-> "", status |-> 0,
     fetches |-> n]

Rejected(error, status, n) ==
    [kind |-> "error", payload |-> JsonParse(""), error |-> error,
     status |-> status, fetches |-> n]

\* Faulty variant of Request: a server error is tried once more, and a
\* second failure is reported without its status.
RequestRetrying(x) ==
    IF x.failed THEN Rejected("TypeError", 0, 1)
    ELSE IF ~ResponseOk(x.status)
    THEN Rejected("Error", 0, IF x.status >= 500 THEN 2 ELSE 1)
    ELSE IF ~JsonParse(x.body).valid THEN Rejected("SyntaxError", 0, 1)
    ELSE Resolved(JsonParse(x.body), 1)

\* TradingAPI.request: one fetch; a failed fetch is rethrown; a status that
\* is not ok throws Error(`HTTP error! status: ${response.status}`); else
\* the body is parsed, and the parse error is rethrown or the value
\* returned.
Request(x) ==
    IF x.failed THEN Rejected("TypeError", 0, 1)
    ELSE IF ~ResponseOk(x.status) THEN Rejected("Error", x.status, 1)
    ELSE IF ~JsonParse(x.body).valid THEN Rejected("SyntaxError", 0, 1)
    ELSE Resolved(JsonParse(x.body), 1)

----------------------------------------------------------------------------
(* Renderers *)

Symbols == {"BTC", "ETH", "SOL"}

\* pos.pnl: a number, or undefined.
Pnls ==
    {[defined |-> FALSE, value |-> 0]}
        \cup {[defined |-> TRUE, value |-> n] : n \in -MaxPnl..MaxPnl}

\* portfolio.positions as Object.entries lists it: one entry per symbol.
PositionMaps ==
    {m \in UNION {[1..n -> [symbol : Symbols, pnl : Pnls]] : n \in 0..MaxPositions} :
        \A i, j \in 1..Len(m) : m[i].symbol = m[j].symbol => i = j}

\* The portfolio list of the page:
\*   display      the list element is displayed
\*   placeholder  the empty-state placeholder is shown
\*   cards        the position cards the list element holds
EmptyList == [display |-> TRUE, placeholder |-> FALSE, cards |-> <<>>]

Card(symbol, cls) == [symbol |-> symbol, cls |-> cls]

\* Faulty variant of FnPnlClass: the comparison is the wrong way round.
FnPnlClassInverted(pos) ==
    LET pnl == IF pos.pnl.defined THEN pos.pnl.value ELSE 0
    IN  IF pnl <= 0 THEN "profit" ELSE "loss"

\* fn renderPositionsList: pnl = pos.pnl || 0; isProfit = pnl >= 0.
FnPnlClass(pos) ==
    LET pnl == IF pos.pnl.defined THEN pos.pnl.value ELSE 0
    IN  IF pnl >= 0 THEN "profit" ELSE "loss"

\* class loadPortfolio: pos.pnl >= 0 ? 'profit' : 'loss' (undefined >= 0
\* is false).
ClassPnlClass(pos) ==
    IF pos.pnl.defined /\ pos.pnl.value >= 0 THEN "profit" ELSE "loss"

\* fn renderPositionsList: an empty map hides the list and shows the
\* placeholder (the list keeps its cards); else the list is emptied and
\* gets one card per entry.
FnRenderPositionsList(list, positions) ==
    IF Len(positions) = 0
    THEN [list EXCEPT !.display = FALSE, !.placeholder = TRUE]
    ELSE [display |-> TRUE, placeholder |-> FALSE,
          cards |-> [i \in 1..Len(positions) |->
                        Card(positions[i].symbol, FnPnlClass(positions[i]))]]

\* The loop of class loadPortfolio: pos.pnl.toFixed(2) throws on a missing
\* pnl before the card is appended, and the catch block ends the loop.
RECURSIVE ClassAppendCards(_, _)
ClassAppendCards(cards, entries) ==
    IF entries = <<>> THEN cards
    ELSE IF ~Head(entries).pnl.defined THEN cards
    ELSE ClassAppendCards(
             Append(cards, Card(Head(entries).symbol, ClassPnlClass(Head(entries)))),
             Tail(entries))

\* class loadPortfolio after its await: an empty map replaces the content
\* of the list by the placeholder; else the list is emptied and the cards
\* are appended.
ClassRenderPositions(list, positions) ==
    IF Len(positions) = 0
    THEN [list EXCEPT !.placeholder = TRUE, !.cards = <<>>]
    ELSE [list EXCEPT !.placeholder = FALSE,
                      !.cards = ClassAppendCards(<<>>, positions)]

\* item.date as the backend sends it: year, month, day.
Dates == {<<2024, 1, 31>>, <<2024, 2, 1>>}

Values == {98, 100, 105}

\* data.equity_chart: an ordered list of {date, value}.
Series ==
    UNION {[1..n -> [date : Dates, value : Values]] : n \in 0..MaxPoints}

\* new Date(text): getMonth() counts from 0, getDate() from 1.
NewDate(text) == [month |-> text[2] - 1, date |-> text[3]]

\* class loadEquityCurve: `${date.getMonth() + 1}/${date.getDate()}`.
ClassLabel(text) ==
    LET date == NewDate(text) IN <<date.month + 1, date.date>>

\* fn renderEquityChart: d.date.
FnLabel(text) == text

\* No chart was built.
NoChart == [built |-> FALSE, labels |-> <<>>, values |-> <<>>]

\* Faulty variant of ChartValues: the values are taken newest first.
ChartValuesReversed(chartData) ==
    [i \in 1..Len(chartData) |-> chartData[Len(chartData) + 1 - i].value]

\* chartData.map(d => d.value)
ChartValues(chartData) == [i \in 1..Len(chartData) |-> chartData[i].value]

\* The configuration of the Chart that renderEquityChart (v = "fn") or
\* loadEquityCurve (v = "class") builds; none for an empty series.
ChartOf(v, chartData) ==
    IF Len(chartData) = 0 THEN NoChart
    ELSE [built |-> TRUE,
          labels |-> [i \in 1..Len(chartData) |->
                         IF v = "fn" THEN <<FnLabel(chartData[i].date)>>
                         ELSE <<ClassLabel(chartData[i].date)>>],
          values |-> ChartValues(chartData)]

\* trade.close_time, in minutes on the scale of the clock.
CloseTimes == {0}

\* data.trades of GET /history: closed trades.
Trades ==
    [symbol : {"BTC"}, profit_usdt : -MaxPnl..MaxPnl, close_time : CloseTimes]

TradeLists == {<<>>} \cup {<<t>> : t \in Trades}

\* fn formatDate(isoString): the age of the trade against new Date().
FormatDate(isoString, now) ==
    LET diffMs == (now - isoString) * 60000
        diffMins == diffMs \div 60000
        diffHours == diffMs \div 3600000
        diffDays == diffMs \div 86400000
    IN  IF diffMins < 1 THEN [unit |-> "now", n |-> 0]
        ELSE IF diffMins < 60 THEN [unit |-> "min", n |-> diffMins]
        ELSE IF diffHours < 24 THEN [unit |-> "h", n |-> diffHours]
        ELSE IF diffDays < 7 THEN [unit |-> "d", n |-> diffDays]
        ELSE [unit |-> "date", n |-> isoString]

\* class formatTime(timestamp): the age in seconds against new Date().
FormatTime(timestamp, now) ==
    LET diff == ((now - timestamp) * 60000) \div 1000
    IN  IF diff < 60 THEN [unit |-> "s", n |-> diff]
        ELSE IF diff < 3600 THEN [unit |-> "min", n |-> diff \div 60]
        ELSE IF diff < 86400 THEN [unit |-> "h", n |-> diff \div 3600]
        ELSE [unit |-> "date", n |-> timestamp]

HistoryItem(trade, cls, date) ==
    [symbol |-> trade.symbol, cls |-> cls, date |-> date]

\* fn renderHistory: no trades hides the list and shows the placeholder
\* (the list keeps its items); else the list is emptied and gets one item
\* per trade, isProfit = trade.profit_usdt > 0.
FnRenderHistory(list, trades, now) ==
    IF Len(trades) = 0
    THEN [list EXCEPT !.display = FALSE, !.placeholder = TRUE]
    ELSE [display |-> TRUE, placeholder |-> FALSE,
          cards |-> [i \in 1..Len(trades) |->
                        HistoryItem(trades[i],
                            IF trades[i].profit_usdt > 0 THEN "profit" ELSE "loss",
                            FormatDate(trades[i].close_time, now))]]

\* class loadHistory after its await: no trades replaces the content of the
\* list by the placeholder; else one card per trade,
\* trade.profit_usdt >= 0 ? 'profit' : 'loss'.
ClassRenderHistory(list, trades, now) ==
    IF Len(trades) = 0
    THEN [list EXCEPT !.placeholder = TRUE, !.cards = <<>>]
    ELSE [list EXCEPT !.placeholder = FALSE,
                      !.cards = [i \in 1..Len(trades) |->
                        HistoryItem(trades[i],
                            IF trades[i].profit_usdt >= 0 THEN "profit" ELSE "loss",
                            FormatTime(trades[i].close_time, now))]]

\* data.stats of GET /history.
Stats ==
    {[winrate |-> 50, total_trades |-> 2, wins |-> 1, losses |-> 1],
     [winrate |-> 100, total_trades |-> 1, wins |-> 1, losses |-> 0]}

NoStats == [winrate |-> 0, total_trades |-> 0, wins |-> 0, losses |-> 0]

\* fn formatPercent(value): a sign, then the number.
FormatPercent(num) == [sign |-> IF num >= 0 THEN "+" ELSE "", value |-> num]

\* The four statistics fields: fn renderStats (winrate through
\* formatPercent), class loadOverview (winrate.toFixed(1), no sign).
StatsText(v, stats) ==
    [winrate |-> IF v = "fn" THEN FormatPercent(stats.winrate)
                 ELSE [sign |-> "", value |-> stats.winrate],
     trades |-> stats.total_trades, wins |-> stats.wins,
     losses |-> stats.losses]

\* data.signals of GET /signals.
SignalLists ==
    {<<>>} \cup {<<[symbol |-> "BTC", signal |-> k]>> : k \in {"BUY", "HOLD"}}

\* fn: signal.signal.toLowerCase(); class: BUY -> buy, SELL -> sell, else
\* hold.
SignalClass(v, signal) ==
    IF v = "fn"
    THEN CASE signal = "BUY" -> "buy" [] signal = "SELL" -> "sell"
           [] signal = "HOLD" -> "hold"
    ELSE IF signal = "BUY" THEN "buy" ELSE IF signal = "SELL" THEN "sell"
    ELSE "hold"

\* renderSignals / class loadSignals after its await: the container is
\* emptied; no signals gives the placeholder, else one card per signal (the
\* class cards carry a buy button unless the signal is HOLD).
RenderSignalList(v, signalList) ==
    IF Len(signalList) = 0 THEN [placeholder |-> TRUE, cards |-> <<>>]
    ELSE [placeholder |-> FALSE,
          cards |-> [i \in 1..Len(signalList) |->
                        [symbol |-> signalList[i].symbol,
                         cls |-> SignalClass(v, signalList[i].signal),
                         button |-> v = "class" /\ signalList[i].signal # "HOLD"]]]

\* portfolio.positions with one open position at most.
FewPositions ==
    {m \in PositionMaps : Len(m) <= 1 /\ \A i \in 1..Len(m) : m[i].symbol = "BTC"}

\* The portfolios rendered into the overview header.
PortfolioData ==
    [enabled : BOOLEAN, total_pnl : -MaxPnl..MaxPnl, positions : FewPositions]

NoPortfolioData == [enabled |-> FALSE, total_pnl |-> 0, positions |-> <<>>]

\* element.classList.toggle(c, force)
ClassListToggle(classList, c, force) ==
    IF force THEN classList \cup {c} ELSE classList \ {c}

\* fn renderPortfolio, without the positions list: status text, the
\* 'active' class of the AI card, the positions count, and the
\* positive/negative classes of the total P&L.
FnRenderPortfolio(overview, data) ==
    [ai |-> AiText(data.enabled),
     cardCls |-> ClassListToggle(overview.cardCls, "active", data.enabled),
     count |-> Len(data.positions),
     pnlCls |-> ClassListToggle(
                    ClassListToggle(overview.pnlCls, "positive", data.total_pnl >= 0),
                    "negative", data.total_pnl < 0)]

\* class loadOverview after getPortfolio: className is assigned whole.
ClassRenderOverview(overview, data) ==
    [overview EXCEPT
        !.ai = AiText(data.enabled),
        !.cardCls = {"status-badge", IF data.enabled THEN "active" ELSE "inactive"},
        !.pnlCls = {"stat-value", IF data.total_pnl >= 0 THEN "profit" ELSE "loss"}]

\* The page as the markup delivers it.
EmptyPage ==
    [overview |-> [ai |-> "none", cardCls |-> {}, count |-> 0, pnlCls |-> {}],
     stats |-> StatsText("class", NoStats),
     signals |-> [placeholder |-> FALSE, cards |-> <<>>],
     history |-> EmptyList]

\* The last call made: which function, its argument, its result.
NoCall ==
    [fn |-> "none", exchange |-> [failed |-> TRUE, status |-> 0, body |-> ""],
     result |-> Rejected("", 0, 0), positions |-> <<>>, series |-> <<>>,
     chart |-> NoChart, portfolioData |-> NoPortfolioData, trades |-> <<>>,
     stats |-> NoStats, signalList |-> <<>>]

----------------------------------------------------------------------------
(* Initial states *)

\* fn: the script has been evaluated (the `state` literal), DOMContentLoaded
\* has not fired yet.
InitFn ==
    /\ variant = "fn"
    /\ listeners = FALSE
    /\ timers = 0
    /\ net = {}
    /\ nextId = 1
    /\ budget = MaxReq
    /\ ops = <<>>
    /\ ev = NoEvent
    /\ loadingScreen = FALSE

\* class: `new TradingApp()` has returned: the constructor ran init() up to
\* its first await, so the initial loadAllData is in flight.
InitClass ==
    /\ variant = "class"
    /\ listeners = FALSE
    /\ timers = 0
    /\ net = NewReqs(LoadAllLabels("class"), 1, 1)
    /\ nextId = 1 + Len(LoadAllLabels("class"))
    /\ budget = MaxReq
    /\ ops = <<NewOp("loadAllData", "init", "load",
                     {LoaderOf("class", k) : k \in Range(LoadAllLabels("class"))})>>
    /\ ev = [NoEvent EXCEPT !.kind = "init",
                            !.issued = {r.k : r \in net}]
    /\ loadingScreen = TRUE

Init ==
    /\ visible = TRUE
    /\ events = MaxEvents
    /\ currentTab = "overview"
    /\ portfolio = 0
    /\ history = 0
    /\ signals = 0
    /\ equityChart = 0
    /\ loading = FALSE
    /\ refreshBtn = TRUE
    /\ shown = [p \in DomParts |-> 0]
    /\ charts = {}
    /\ aiEnabled = TRUE
    /\ aiStatus = "none"
    /\ toggled = NoToggle
    /\ portfolioList = EmptyList
    /\ last = NoCall
    /\ page = EmptyPage
    /\ clock = 0
    /\ (InitFn \/ InitClass)

----------------------------------------------------------------------------
(* Promise plumbing *)

\* Faulty variant of Settle: a rejection aborts the requests of the same
\* invocation.
SettleAbortingSiblings(reqs, r, ok) ==
    IF ok \/ r.op = 0 THEN reqs \ {r} ELSE {q \in reqs : q.op # r.op}

\* A settled request leaves the network; nothing else does: neither a
\* rejection nor Promise.all aborts the sibling requests.
Settle(reqs, r, ok) == reqs \ {r}

\* Faulty variant of AllSettled: Promise.all over loaders that reject, which
\* settles at the first rejection.
SettledOrRejected(res) ==
    \/ \A l \in Loaders : res[l] # "wait"
    \/ \E l \in Loaders : res[l] = "fail"

\* Promise.all over loaders that never reject: it resolves when every
\* loader has run to its end.
AllSettled(res) == \A l \in Loaders : res[l] # "wait"

\* What a loader's try/catch leaves behind when request k settles: the
\* loader goes on (another await), ended normally, or ended in its catch.
LoaderResult(v, k, ok) ==
    IF Follow(v, k, ok) # <<>> THEN "wait" ELSE IF ok THEN "ok" ELSE "fail"

\* The notification of toggleAITrading / toggleAI: response.message, or
\* the error text of the catch block.
ToggleNote(o) == IF o.ok THEN o.data ELSE "error"

\* The invocation record after request r settled with outcome o.
\* toggle: on success the reload follows, a rejection goes to the catch.
OpAfter(v, op, r, o) ==
    IF r.k = "toggleAI"
    THEN IF o.ok
         THEN LET fol == Follow(v, "toggleAI", TRUE)
              IN  [op EXCEPT !.pc = "load",
                             !.res = [l \in Loaders |->
                                 IF l \in {LoaderOf(v, k) : k \in Range(fol)}
                                 THEN "wait" ELSE @[l]]]
         ELSE [op EXCEPT !.pc = "done"]
    ELSE LET res2 == [op.res EXCEPT ![LoaderOf(v, r.k)] = LoaderResult(v, r.k, o.ok)]
         IN  [op EXCEPT !.res = res2,
                        !.pc = IF AllSettled(res2) THEN "done" ELSE @]

\* The handler about to run fits the bounds of the model.
Spend(cost) ==
    /\ budget >= cost
    /\ events >= 1
    /\ budget' = budget - cost
    /\ events' = events - 1

\* showLoading of the fn variant.
ShowLoading ==
    /\ loading' = TRUE
    /\ refreshBtn' = FALSE

\* loadAllData up to its await: every loader has issued its first request.
StartLoadAllData(cause) ==
    /\ IF cause = "init"
       THEN UNCHANGED <<budget, events>>
       ELSE Spend(SumCost(variant, LoadAllLabels(variant)))
    /\ net' = net \cup NewReqs(LoadAllLabels(variant), Len(ops) + 1, nextId)
    /\ nextId' = nextId + Len(LoadAllLabels(variant))
    /\ ops' = Append(ops, NewOp("loadAllData", cause, "load",
                  {LoaderOf(variant, k) : k \in Range(LoadAllLabels(variant))}))

\* Faulty variant of StartLoaders: a new load aborts the request in flight
\* for the same loader.
StartLoadersAborting(ks) ==
    /\ Spend(SumCost(variant, ks))
    /\ net' = {r \in net : r.k \notin Range(ks)} \cup NewReqs(ks, 0, nextId)
    /\ nextId' = nextId + Len(ks)

\* Loaders called with nothing awaiting them (switchTab, loadTabData): each
\* issues its request; requests already in flight are left alone.
StartLoaders(ks) ==
    /\ Spend(SumCost(variant, ks))
    /\ net' = net \cup NewReqs(ks, 0, nextId)
    /\ nextId' = nextId + Len(ks)

\* Faulty variant of ToggleClickLabels: the reload is issued together with
\* the POST.
ToggleClickLabelsEager(v) == <<"toggleAI">> \o Follow(v, "toggleAI", TRUE)

\* The requests the toggle handler issues before its first await.
ToggleClickLabels(v) == <<"toggleAI">>

StartToggle ==
    /\ Spend(CostToggle(variant))
    /\ net' = net \cup NewReqs(ToggleClickLabels(variant), Len(ops) + 1, nextId)
    /\ nextId' = nextId + Len(ToggleClickLabels(variant))
    /\ ops' = Append(ops, NewOp("toggleAI", "click", "post",
                  {LoaderOf(variant, k) : k \in Range(ToggleClickLabels(variant))}
                      \ {"none"}))

----------------------------------------------------------------------------
(* Function variant *)

\* DOMContentLoaded: setupEventListeners, then loadAllData (awaited).
DOMContentLoaded ==
    /\ variant = "fn"
    /\ ~listeners
    /\ ops = <<>>
    /\ listeners' = TRUE
    /\ StartLoadAllData("init")
    /\ ShowLoading
    /\ ev' = Event("init", "")
    /\ UNCHANGED <<aiVars, loadingScreen, pureVars>>
    /\ UNCHANGED <<variant, timers, visible, currentTab, portfolio, history,
                   signals, equityChart, shown, charts>>

\* refresh-btn click: loadAllData, with no look at state.loading; the
\* button itself takes no click while showLoading has disabled it.
FnRefreshClick ==
    /\ variant = "fn"
    /\ listeners
    /\ refreshBtn
    /\ StartLoadAllData("refresh")
    /\ ShowLoading
    /\ ev' = Event("refresh", "")
    /\ UNCHANGED <<aiVars, loadingScreen, pureVars>>
    /\ UNCHANGED <<variant, listeners, timers, visible, currentTab, portfolio,
                   history, signals, equityChart, shown, charts>>

\* toggle-ai-btn click: toggleAITrading up to `await api.toggleAI()`.
FnToggleClick ==
    /\ variant = "fn"
    /\ listeners
    /\ StartToggle
    /\ ShowLoading
    /\ ev' = Event("toggle", "")
    /\ UNCHANGED <<aiVars, loadingScreen, pureVars>>
    /\ UNCHANGED <<variant, listeners, timers, visible, currentTab, portfolio,
                   history, signals, equityChart, shown, charts>>

\* The loaders switchTab(tabName) calls.
\* fn: loadSignals, and only while no signals are stored;
\* class: loadTabData(tabName).
SwitchTabLabels(v, t, stored) ==
    IF v = "fn"
    THEN IF t = "signals" /\ stored = 0 THEN <<"loadSignals">> ELSE <<>>
    ELSE <<TabLabel(t)>>

\* Faulty variant of SwitchTabTimers: switchTab starts the auto-refresh
\* again without clearing the interval that runs.
SwitchTabRestartsTimer(n) == n + 1

\* The live intervals after switchTab: neither variant touches the timer.
SwitchTabTimers(n) == n

\* switchTab(tabName) of the fn variant.
FnSwitchTab(t) ==
    /\ variant = "fn"
    /\ listeners
    /\ currentTab' = t
    /\ timers' = SwitchTabTimers(timers)
    /\ StartLoaders(SwitchTabLabels(variant, t, signals))
    /\ ev' = Event("switchTab", t)
    /\ UNCHANGED <<aiVars, loadingScreen, pureVars>>
    /\ UNCHANGED <<variant, listeners, visible, portfolio, history,
                   signals, equityChart, loading, refreshBtn, ops, shown,
                   charts>>


\* setInterval callback of startAutoRefresh: skipped while state.loading or
\* while the document is hidden.
FnTimerTick ==
    /\ variant = "fn"
    /\ timers > 0
    /\ IF ~loading /\ visible
       THEN /\ StartLoadAllData("tick")
            /\ ShowLoading
       ELSE /\ Spend(0)
            /\ UNCHANGED <<net, nextId, ops, loading, refreshBtn>>
    /\ ev' = Event("tick", "")
    /\ UNCHANGED <<aiVars, loadingScreen, pureVars>>
    /\ UNCHANGED <<variant, listeners, timers, visible, currentTab, portfolio,
                   history, signals, equityChart, shown, charts>>

\* The user hides or shows the page.  No handler listens to the change;
\* the fn timer callback reads document.visibilityState, the class variant
\* never does.
VisibilityChange ==
    /\ visible' = ~visible
    /\ Spend(0)
    /\ UNCHANGED <<aiVars, loadingScreen, pureVars>>
    /\ UNCHANGED <<variant, listeners, timers, currentTab, portfolio, history,
                   signals, equityChart, loading, refreshBtn, net, nextId,
                   ops, shown, charts, ev>>

----------------------------------------------------------------------------
(* Class variant *)

\* refresh-btn click: loadAllData (not awaited) and a notification.
ClassRefreshClick ==
    /\ variant = "class"
    /\ listeners
    /\ StartLoadAllData("refresh")
    /\ ev' = [Event("refresh", "") EXCEPT !.note = "updated"]
    /\ UNCHANGED <<aiVars, loadingScreen, pureVars>>
    /\ UNCHANGED <<variant, listeners, timers, visible, currentTab, portfolio,
                   history, signals, equityChart, loading, refreshBtn, shown,
                   charts>>

\* ai-toggle-btn click: toggleAI up to `await API.toggleAI()`.
ClassToggleClick ==
    /\ variant = "class"
    /\ listeners
    /\ StartToggle
    /\ ev' = Event("toggle", "")
    /\ UNCHANGED <<aiVars, loadingScreen, pureVars>>
    /\ UNCHANGED <<variant, listeners, timers, visible, currentTab, portfolio,
                   history, signals, equityChart, loading, refreshBtn, shown,
                   charts>>

\* switchTab(tabName): this.currentTab = tabName, then loadTabData(tabName).
ClassSwitchTab(t) ==
    /\ variant = "class"
    /\ listeners
    /\ currentTab' = t
    /\ timers' = SwitchTabTimers(timers)
    /\ StartLoaders(SwitchTabLabels(variant, t, signals))
    /\ ev' = Event("switchTab", t)
    /\ UNCHANGED <<aiVars, loadingScreen, pureVars>>
    /\ UNCHANGED <<variant, listeners, visible, portfolio, history,
                   signals, equityChart, loading, refreshBtn, ops, shown,
                   charts>>

\* Faulty variant of ClassTickLabels: the callback keeps the tab that was
\* active when the timer was started.
ClassTickLabelsAtStart(tab) == <<TabLabel("overview")>>

\* Faulty variant of ClassTickLabels: the tick reloads every tab.
ClassTickLabelsAll(tab) == LoadAllLabels("class")

\* The loaders a timer tick of the class variant calls:
\* loadTabData(this.currentTab).
ClassTickLabels(tab) == <<TabLabel(tab)>>

\* setInterval callback of startAutoRefresh: loadTabData(this.currentTab),
\* whatever is in flight and whether or not the page is visible.
ClassTimerTick ==
    /\ variant = "class"
    /\ timers > 0
    /\ StartLoaders(ClassTickLabels(currentTab))
    /\ ev' = Event("tick", "")
    /\ UNCHANGED <<aiVars, loadingScreen, pureVars>>
    /\ UNCHANGED <<variant, listeners, timers, visible, currentTab, portfolio,
                   history, signals, equityChart, loading, refreshBtn, ops,
                   shown, charts>>

\* Faulty variant of AmountGiven: only Cancel aborts, an empty amount is
\* sent.
AmountNotCancelled(input) == input # "<null>"

\* buyCoin: `if (!amountInput) return` lets through every non-empty text.
AmountGiven(input) == input \notin {"<null>", ""}

\* closePosition: `if (!confirm(...)) return`.
Confirmed(answer) == answer = "ok"

\* closePosition / buyCoin after the user agreed, up to the await of the
\* POST: showLoading, then API.sellCoin / API.buyCoin.
StartTrade(k) ==
    /\ Spend(CostTrade(variant))
    /\ loadingScreen' = TRUE
    /\ net' = net \cup NewReqs(<<k>>, Len(ops) + 1, nextId)
    /\ nextId' = nextId + 1
    /\ ops' = Append(ops, NewOp("trade", k, "post", {}))

\* The handler returned at its first line.
AbortTrade ==
    /\ Spend(0)
    /\ UNCHANGED <<loadingScreen, net, nextId, ops>>

\* The 'close' button of a position card: closePosition(symbol).  The card
\* is there once loadPortfolio has rendered and the app is displayed.
ClassClosePosition(answer) ==
    /\ variant = "class"
    /\ listeners
    /\ shown["positions"] # 0
    /\ IF Confirmed(answer) THEN StartTrade("sellCoin") ELSE AbortTrade
    /\ ev' = [Event("closePosition", "") EXCEPT !.input = answer]
    /\ UNCHANGED <<aiVars, pureVars>>
    /\ UNCHANGED <<variant, listeners, timers, visible, currentTab, portfolio,
                   history, signals, equityChart, loading, refreshBtn, shown,
                   charts>>

\* The 'buy' button of a signal card: buyCoin(symbol, 100).  The card is
\* there once loadSignals has rendered and the app is displayed.
ClassBuyCoin(input) ==
    /\ variant = "class"
    /\ listeners
    /\ shown["signals"] # 0
    /\ IF AmountGiven(input) THEN StartTrade("buyCoin") ELSE AbortTrade
    /\ ev' = [Event("buyCoin", "") EXCEPT !.input = input]
    /\ UNCHANGED <<aiVars, pureVars>>
    /\ UNCHANGED <<variant, listeners, timers, visible, currentTab, portfolio,
                   history, signals, equityChart, loading, refreshBtn, shown,
                   charts>>

\* What closePosition / buyCoin notify when the POST settles:
\* result.message on success, the error text in the catch block, nothing
\* for an answer that does not report success.
TradeNote(o) ==
    IF ~o.ok THEN "error" ELSE IF o.data = "success" THEN "message" ELSE ""

\* What closePosition / buyCoin issue when the POST settles: loadAllData
\* when result.success, else nothing.
TradeFollow(v, o) ==
    IF o.ok /\ o.data = "success" THEN LoadAllLabels(v) ELSE <<>>

\* The invocation record of closePosition / buyCoin after its POST settled:
\* it awaits loadAllData, or it has returned.
TradeOpAfter(v, op, o) ==
    IF TradeFollow(v, o) # <<>>
    THEN NewOp("loadAllData", op.cause, "load",
               {LoaderOf(v, k) : k \in Range(TradeFollow(v, o))})
    ELSE [op EXCEPT !.pc = "done"]

\* What loadAllData's own catch block notifies: it runs only if a loader
\* rejects, and every loader ends in its own try/catch.
LoadAllDataNote(res) ==
    IF \E l \in Loaders : res[l] = "rejected" THEN "load error" ELSE ""

\* The invocations that call hideLoading of TradingApp when they return:
\* init, closePosition, buyCoin.
HidesLoading(op) == op.cause \in {"init"} \cup TradeLabels

\* Faulty variant of InitResumes: loadAllData() is not awaited, so the rest
\* of the start-up runs as soon as anything of the initial load comes back.
InitResumesEarly(op) == op.cause = "init"

\* The code after `await loadAllData()` in the DOMContentLoaded handler and
\* in init() runs when the initial loadAllData has returned.
InitResumes(op) == op.pc = "done" /\ op.cause = "init"

\* Faulty variant of HideLoadingRuns: hideLoading() is the last statement
\* of the try block, skipped when the awaited call was rejected.
HideLoadingInTry(op, ok) == op.pc = "done" /\ ok

\* finally { hideLoading() } of loadAllData and toggleAITrading (fn): it
\* runs when the invocation returns, whatever the last outcome was.
HideLoadingRuns(op, ok) == op.pc = "done"

----------------------------------------------------------------------------
(* Responses *)

\* The response of request r arrives with outcome o, and the code awaiting
\* it runs to its next await (or to its end, with everything that was
\* awaiting the loader: Promise.all, finally { hideLoading() }, and after
\* the initial load startAutoRefresh / setupEventListeners).
Deliver(r, o) ==
    LET fol == IF r.k \in TradeLabels THEN TradeFollow(variant, o)
               ELSE Follow(variant, r.k, o.ok)
        parts == IF o.ok THEN Parts(variant, r.k) ELSE {}
        chart == IF o.ok /\ r.k = "loadEquityCurve"
                 THEN IF variant = "fn"
                      THEN RenderEquityChart(equityChart, charts, o.data, r.id)
                      ELSE LoadEquityCurveChart(equityChart, charts, o.data, r.id)
                 ELSE [handle |-> equityChart, alive |-> charts, destroyed |-> 0]
        op2 == IF r.op = 0 THEN DoneOp
               ELSE IF r.k \in TradeLabels
               THEN TradeOpAfter(variant, ops[r.op], o)
               ELSE OpAfter(variant, ops[r.op], r, o)
        finished == r.op # 0 /\ op2.pc = "done"
        initDone == r.op # 0 /\ InitResumes(op2)
        flips == r.k = "toggleAI" /\ o.ok
        renders == o.ok /\ AiBearing(variant, r.k)
        drawn == r.rendered \/ parts # {} \/ chart.handle # equityChart
    IN  /\ flips => o.data = ToggleMessage(~aiEnabled)
        /\ aiEnabled' = IF flips THEN ~aiEnabled ELSE aiEnabled
        /\ \E seen \in IF renders THEN EnabledSeen(r) ELSE {aiEnabled} :
              aiStatus' = IF renders THEN AiText(seen) ELSE aiStatus
        /\ toggled' = IF flips
                      THEN [since |-> nextId, reload |-> nextId,
                            rendered |-> FALSE]
                      ELSE IF renders /\ r.id = toggled.reload
                      THEN [toggled EXCEPT !.rendered = TRUE]
                      ELSE toggled
        /\ net' = Settle(net, r, o.ok)
                    \cup {[q EXCEPT !.rendered = InLoader(variant, r.k) /\ drawn]
                             : q \in NewReqs(fol, r.op, nextId)}
        /\ nextId' = nextId + Len(fol)
        /\ ops' = IF r.op = 0 THEN ops
                  ELSE [ops EXCEPT ![r.op] = IF finished THEN DoneOp ELSE op2]
        /\ shown' = [p \in DomParts |-> IF p \in parts THEN r.id ELSE shown[p]]
        /\ portfolio' = IF variant = "fn" /\ o.ok /\ r.k = "loadPortfolio"
                        THEN r.id ELSE portfolio
        /\ history' = IF variant = "fn" /\ o.ok /\ r.k = "loadHistory"
                      THEN r.id ELSE history
        /\ signals' = IF variant = "fn" /\ o.ok /\ r.k = "loadSignals"
                      THEN r.id ELSE signals
        /\ equityChart' = chart.handle
        /\ charts' = chart.alive
        /\ loading' = IF variant = "fn" /\ r.op # 0 /\ HideLoadingRuns(op2, o.ok)
                      THEN FALSE ELSE loading
        /\ refreshBtn' = IF variant = "fn" /\ r.op # 0 /\ HideLoadingRuns(op2, o.ok)
                         THEN TRUE ELSE refreshBtn
        /\ listeners' = (listeners \/ initDone)
        /\ timers' = IF initDone THEN timers + 1 ELSE timers
        /\ ev' = [kind |-> "response", tab |-> "", id |-> r.id, k |-> r.k,
                  ok |-> o.ok, data |-> o.data, issued |-> Issued,
                  busy |-> ReloadInFlight, vis |-> visible,
                  stale |-> \E p \in parts : shown[p] > r.id,
                  note |-> IF r.k = "toggleAI" THEN ToggleNote(o)
                           ELSE IF r.k \in TradeLabels THEN TradeNote(o)
                           ELSE IF finished /\ op2.kind = "loadAllData"
                           THEN LoadAllDataNote(op2.res)
                           ELSE "",
                  destroyed |-> chart.destroyed,
                  ret |-> IF finished THEN op2 ELSE DoneOp,
                  input |-> "", partial |-> r.rendered]
        /\ loadingScreen' = IF variant = "class" /\ finished /\ HidesLoading(op2)
                            THEN FALSE ELSE loadingScreen
        /\ UNCHANGED <<variant, visible, currentTab, budget, events, pureVars>>

Response ==
    \E r \in net :
        \E o \in IF r.k \in TradeLabels THEN TradeOutcomes ELSE Outcomes(r.k) :
            Deliver(r, o)

Next ==
    \/ DOMContentLoaded
    \/ FnRefreshClick
    \/ FnToggleClick
    \/ \E t \in Tabs : FnSwitchTab(t)
    \/ FnTimerTick
    \/ VisibilityChange
    \/ ClassRefreshClick
    \/ ClassToggleClick
    \/ \E t \in Tabs : ClassSwitchTab(t)
    \/ ClassTimerTick
    \/ \E answer \in ConfirmAnswers : ClassClosePosition(answer)
    \/ \E input \in PromptAnswers : ClassBuyCoin(input)
    \/ Response

Spec == Init /\ [][Next]_vars

\* The steps of the fn variant.
FnNext ==
    \/ DOMContentLoaded
    \/ FnRefreshClick
    \/ FnToggleClick
    \/ \E t \in Tabs : FnSwitchTab(t)
    \/ FnTimerTick
    \/ VisibilityChange
    \/ Response

\* The handlers of the fn variant under the assumption that every request
\* in flight is eventually answered: a response stays deliverable until it
\* is delivered, and the event loop runs every continuation that is ready.
\* Nothing obliges the user, the timer or the page to act.
LiveSpec == Init /\ [][FnNext]_vars /\ WF_vars(Response)

----------------------------------------------------------------------------
(* The API client and the renderers, applied to bounded inputs *)

dashVars ==
    <<variant, listeners, timers, visible, currentTab, portfolio, history,
      signals, equityChart, loading, refreshBtn, net, nextId, budget, events,
      ops, shown, charts, ev, aiVars, loadingScreen>>

\* A call of TradingAPI.request that comes to exchange x.
CallRequest(x) ==
    /\ last' = [NoCall EXCEPT !.fn = "request", !.exchange = x,
                              !.result = Request(x)]
    /\ UNCHANGED <<dashVars, portfolioList, renderVars>>

\* renderPositionsList(data.positions) / the rendering of loadPortfolio.
RenderPositions(positions) ==
    /\ portfolioList' = IF variant = "fn"
                        THEN FnRenderPositionsList(portfolioList, positions)
                        ELSE ClassRenderPositions(portfolioList, positions)
    /\ last' = [NoCall EXCEPT !.fn = "positions", !.positions = positions]
    /\ UNCHANGED <<dashVars, renderVars>>

\* renderEquityChart(data.equity_chart) / the chart of loadEquityCurve.
RenderChart(chartData) ==
    /\ last' = [NoCall EXCEPT !.fn = "chart", !.series = chartData,
                              !.chart = ChartOf(variant, chartData)]
    /\ UNCHANGED <<dashVars, portfolioList, renderVars>>

\* The API client and the chart adapter: each call is independent of the
\* calls before it.
PureNext ==
    \/ \E x \in Exchanges : CallRequest(x)
    \/ \E chartData \in Series : RenderChart(chartData)

PureSpec == Init /\ [][PureNext]_vars

\* The portfolio list: a sequence of renders of one list element.
ListNext == \E positions \in PositionMaps : RenderPositions(positions)

ListSpec == Init /\ [][ListNext]_vars

\* The renderers of different regions write different elements; a
\* behaviour of the page renderers follows the renders of one region.
SameRegion(fn) == last.fn \in {"none", fn}

\* renderPortfolio(data) (fn, with its positions list) / the portfolio part
\* of loadOverview (class).
RenderPortfolio(data) ==
    /\ SameRegion("portfolio")
    /\ page' = [page EXCEPT !.overview =
                    IF variant = "fn" THEN FnRenderPortfolio(@, data)
                    ELSE ClassRenderOverview(@, data)]
    /\ portfolioList' = IF variant = "fn"
                        THEN FnRenderPositionsList(portfolioList, data.positions)
                        ELSE portfolioList
    /\ last' = [NoCall EXCEPT !.fn = "portfolio", !.portfolioData = data]
    /\ UNCHANGED <<dashVars, clock>>

\* The rendering of loadHistory: fn renderHistory(data) and
\* renderStats(data.stats); class the history list alone.
RenderHistory(trades, stats) ==
    /\ SameRegion("history")
    /\ page' = IF variant = "fn"
               THEN [page EXCEPT
                        !.history = FnRenderHistory(@, trades, clock),
                        !.stats = StatsText("fn", stats)]
               ELSE [page EXCEPT
                        !.history = ClassRenderHistory(@, trades, clock)]
    /\ last' = [NoCall EXCEPT !.fn = "history", !.trades = trades,
                              !.stats = stats]
    /\ UNCHANGED <<dashVars, portfolioList, clock>>

\* The statistics part of class loadOverview.
RenderStats(stats) ==
    /\ variant = "class"
    /\ SameRegion("stats")
    /\ page' = [page EXCEPT !.stats = StatsText("class", stats)]
    /\ last' = [NoCall EXCEPT !.fn = "stats", !.stats = stats]
    /\ UNCHANGED <<dashVars, portfolioList, clock>>

\* renderSignals(data) / the rendering of class loadSignals.
RenderSignals(signalList) ==
    /\ SameRegion("signals")
    /\ page' = [page EXCEPT !.signals = RenderSignalList(variant, signalList)]
    /\ last' = [NoCall EXCEPT !.fn = "signals", !.signalList = signalList]
    /\ UNCHANGED <<dashVars, portfolioList, clock>>

\* A minute goes by.
TimePasses ==
    /\ clock < MaxClock
    /\ clock' = clock + 1
    /\ UNCHANGED <<dashVars, portfolioList, last, page>>

\* The page renderers: renders of one region, as time goes by.
RenderNext ==
    \/ \E data \in PortfolioData : RenderPortfolio(data)
    \/ \E positions \in FewPositions :
          SameRegion("positions") /\ RenderPositions(positions)
    \/ \E trades \in TradeLists :
          \E stats \in IF variant = "fn" THEN Stats ELSE {NoStats} :
              RenderHistory(trades, stats)
    \/ \E stats \in Stats : RenderStats(stats)
    \/ \E signalList \in SignalLists : RenderSignals(signalList)
    \/ TimePasses

RenderSpec == Init /\ [][RenderNext]_vars

----------------------------------------------------------------------------
(* Claims *)

\* The loadAllData invocations that have not returned.
ActiveReloads ==
    {i \in 1..Len(ops) : ops[i].kind = "loadAllData" /\ ops[i].pc # "done"}

\* The tabs whose data a loader fetches.
LabelTabs(v, k) ==
    IF v = "fn"
    THEN CASE k = "loadPortfolio" -> {"overview", "portfolio"}
           [] k = "loadHistory" -> {"history"}
           [] k = "loadSignals" -> {"signals"}
           [] OTHER -> {"overview"}
    ELSE {t \in Tabs : TabLabel(t) = k}

\* The last handler started a full reload.
StartedReload ==
    \/ ev.kind \in {"init", "refresh"}
    \/ ev.kind = "tick" /\ variant = "fn" /\ ev.issued # {}

\* C1: busy-flag guard: in every reachable state at most one loadAllData
\* fetch set is in flight, whatever the interleaving of ticks, refresh
\* clicks and toggle-AI actions.
C1_SingleReloadInFlight == Cardinality(ActiveReloads) <= 1

\* C2: scheduler tick policy: a timer tick that fires while a reload is in
\* flight, or while the document is not visible, issues no fetch.
C2_TickDroppedWhenBusyOrHidden ==
    (ev.kind = "tick" /\ (ev.busy \/ ~ev.vis)) => ev.issued = {}

\* C3: independent failure domains: within a reload, a loader that has not
\* ended still has its request in flight whatever happened to the other
\* loaders, and every response that arrives successfully is rendered into
\* its DOM parts.
C3_IndependentFailureDomains ==
    /\ \A i \in ActiveReloads : \A l \in Loaders :
          ops[i].res[l] = "wait" =>
              Cardinality({r \in net : r.op = i /\ LoaderOf(variant, r.k) = l}) = 1
    /\ (ev.kind = "response" /\ ev.ok) =>
          \A p \in Parts(variant, ev.k) : shown[p] = ev.id

\* C3 witness: a class-variant reload returned with its signals loader
\* failed and overview, portfolio and history loaded and rendered.
C3_SignalsFailedOthersRendered ==
    /\ ev.ret.kind = "loadAllData"
    /\ ev.ret.res["signals"] = "fail"
    /\ \A l \in {"overview", "portfolio", "history"} : ev.ret.res[l] = "ok"
    /\ \A p \in {"overview", "positions", "history", "stats"} : shown[p] # 0
    /\ shown["signals"] = 0

\* C4: a full reload issues the first request of every loader at once, and
\* returns (fn: hideLoading clears the flag) only when every request of
\* every loader has settled, by success or by failure.
C4_ReloadCompletesWhenAllSettled ==
    /\ StartedReload =>
          \A k \in Range(LoadAllLabels(variant)) :
              \E r \in net : r.op = Len(ops) /\ r.k = k
    /\ \A r \in net : r.op # 0 => ops[r.op].pc # "done"
    /\ ev.ret.kind = "loadAllData" =>
          /\ \A l \in Loaders : ev.ret.res[l] # "wait"
          /\ variant = "fn" => ~loading

\* C4 witness: a reload returned at a successful response after another of
\* its loaders had failed.
C4_ReturnedAfterFailureAndSuccess ==
    /\ ev.ret.kind = "loadAllData"
    /\ ev.ok
    /\ \E l \in Loaders : ev.ret.res[l] = "fail"
    /\ \A r \in net : r.op = 0 \/ ops[r.op].pc # "done"

\* C5: every switchTab('signals') issues exactly one signals fetch and no
\* other fetch.
C5_OneSignalsFetchPerSwitch ==
    (ev.kind = "switchTab" /\ ev.tab = "signals") => ev.issued = {"loadSignals"}

C7_NoCancellation ==
    [][\A r \in net : r \in net' \/ (ev'.kind = "response" /\ ev'.id = r.id)]_vars

\* C7 witness: the response of an older request was rendered over the
\* response of a newer request for the same DOM part.
C7_StaleOverwrite == ev.kind = "response" /\ ev.stale

\* C8: at most one equity chart is alive, and it is the one the handle
\* refers to.
C8_SingleChart ==
    /\ Cardinality(charts) <= 1
    /\ charts \subseteq {equityChart}

\* C8 witness: a second build destroyed the held chart and created its own.
C8_Rebuilt ==
    /\ ev.kind = "response"
    /\ ev.k = "loadEquityCurve"
    /\ ev.data = "points"
    /\ ev.destroyed # 0
    /\ charts = {ev.id}

\* C9: after the chart adapter was given an empty series no chart is alive.
C9_EmptySeriesTearsDown ==
    (ev.kind = "response" /\ ev.k = "loadEquityCurve" /\ ev.ok
        /\ ev.data = "empty") => charts = {}

\* C10: the toggle handler issues the POST alone; the reload is issued only
\* once the POST's response has arrived, with a notification that carries
\* the response's message; a failed POST issues nothing and notifies an
\* error.
C10_ToggleThenReload ==
    /\ ev.kind = "toggle" => ev.issued = {"toggleAI"}
    /\ \A r \in net :
          (r.op # 0 /\ ops[r.op].kind = "toggleAI" /\ r.k # "toggleAI") =>
              ops[r.op].pc = "load"
    /\ (ev.kind = "response" /\ ev.k = "toggleAI") =>
          IF ev.ok
          THEN /\ ev.note = ev.data
               /\ ev.issued = Range(Follow(variant, "toggleAI", TRUE))
          ELSE /\ ev.note = "error"
               /\ ev.issued = {}

\* C11: after a toggle-AI command answered with enabled:false, once the
\* toggle handler has returned with its re-render done and every request
\* that was in flight at the answer has completed, the overview shows the
\* inactive AI state (the backend's state), also when refreshes were in
\* flight when the toggle was sent.
C11_OverviewShowsToggledState ==
    (/\ toggled.since > 0
     /\ toggled.rendered
     /\ ~aiEnabled
     /\ \A r \in net : r.id >= toggled.since
     /\ \A i \in 1..Len(ops) : ops[i].kind # "toggleAI")
        => aiStatus = "inactive"

\* C10 witness: a toggle answered "AI off": that text was notified and the
\* reload was issued.
C10_ToggleAnswered ==
    /\ ev.kind = "response"
    /\ ev.k = "toggleAI"
    /\ ev.ok
    /\ ev.note = "AI off"
    /\ ev.issued # {}

\* The last handler was closePosition or buyCoin and the user aborted it.
UserAborted ==
    \/ ev.kind = "closePosition" /\ ev.input = "cancel"
    \/ ev.kind = "buyCoin" /\ ev.input \in {"<null>", ""}

\* C12: a buy or sell that is sent makes exactly one API call; when the
\* call succeeds a full reload is started; when it fails, by a transport
\* error or by an answer that does not report success, an error is notified
\* and nothing is issued (no retry): no outcome leaves the user with
\* neither a reload nor an error.
C12_TradeReloadsOrReportsError ==
    /\ (ev.kind \in {"closePosition", "buyCoin"} /\ ~UserAborted) =>
          /\ Cardinality(ev.issued) = 1
          /\ ev.issued \subseteq TradeLabels
    /\ (ev.kind = "response" /\ ev.k \in TradeLabels) =>
          IF ev.ok /\ ev.data = "success"
          THEN ev.issued = Range(LoadAllLabels(variant))
          ELSE ev.note = "error" /\ ev.issued = {}

\* C13: when a reload returns with the fetch of some region failed, the
\* user is shown one notification of the failure.
C13_FailedReloadNotifiesOnce ==
    (ev.ret.kind = "loadAllData" /\ \E l \in Loaders : ev.ret.res[l] = "fail")
        => ev.note = "load error"

\* The state of the controller and of the page it drives.
controller ==
    <<currentTab, portfolio, history, signals, equityChart, charts, loading,
      refreshBtn, loadingScreen, listeners, timers, net, nextId, ops, shown,
      aiStatus>>

\* C14: a closePosition whose confirmation is declined, or a buyCoin whose
\* amount prompt is cancelled or left empty, issues no request, starts no
\* reload, leaves the loading screen as it was and changes nothing of the
\* controller.
C14_AbortChangesNothing ==
    [][(UserAborted' /\ ev' # ev) =>
          /\ ev'.issued = {}
          /\ UNCHANGED controller]_vars

\* C14 witness: an amount prompt left empty; nothing is in flight and the
\* loading screen is not displayed.
C14_EmptyAmountAborted ==
    /\ ev.kind = "buyCoin"
    /\ ev.input = ""
    /\ ev.issued = {}
    /\ ~loadingScreen

\* The bodies that are JSON texts.
JsonTexts == {"{\"success\":true}", "{\"enabled\":false}"}

\* C15: every call of the API client makes exactly one fetch; a status that
\* is not a success rejects with an error carrying that status, a body
\* that is not JSON rejects with a decode error, and a success resolves
\* with the parsed payload; nothing is tried a second time.
C15_SingleAttempt ==
    last.fn = "request" =>
        LET x == last.exchange
            res == last.result
        IN  /\ res.fetches = 1
            /\ x.failed => res.kind = "error"
            /\ (~x.failed /\ x.status \notin 200..299) =>
                  res.kind = "error" /\ res.status = x.status
            /\ (~x.failed /\ x.status \in 200..299 /\ x.body \notin JsonTexts) =>
                  res.kind = "error" /\ res.error = "SyntaxError"
            /\ (~x.failed /\ x.status \in 200..299 /\ x.body \in JsonTexts) =>
                  /\ res.kind = "value"
                  /\ res.payload.valid
                  /\ res.payload = JsonParse(x.body)

\* C15 witness: a 500 answer was rejected with its status after one fetch.
C15_ServerErrorRejected ==
    /\ last.fn = "request"
    /\ last.exchange.status = 500
    /\ last.result.kind = "error"
    /\ last.result.status = 500
    /\ last.result.fetches = 1

\* C16: at most one recurring refresh timer is live, whatever tab
\* switches, refreshes and actions have run.
C16_SingleTimer == timers <= 1

\* C16 witness: a tab switch ran with the timer live, and one timer is live.
C16_SwitchedWithTimer ==
    /\ ev.kind = "switchTab"
    /\ timers = 1

\* The backend entity a request fetches.
Entity(k) ==
    CASE k \in {"loadPortfolio", "loadOverview"} -> "portfolio"
      [] k \in {"loadHistory", "loadOverviewStats"} -> "history"
      [] k = "loadSignals" -> "signals"
      [] k = "loadEquityCurve" -> "equity"
      [] OTHER -> "none"

\* C17: every full refresh, manual or timer-driven, issues a new fetch for
\* portfolio, signals and history (the equity data is fetched with them or,
\* in the class variant, after the portfolio inside loadOverview): signals
\* are fetched on each refresh, not only when the signals tab is opened.
C17_RefreshFetchesEveryEntity ==
    StartedReload =>
        {"portfolio", "signals", "history"} \subseteq {Entity(k) : k \in ev.issued}

\* C18: after a render of the portfolio list, an empty position map shows
\* the placeholder and leaves no position card in the list; a non-empty map
\* leaves exactly one card per entry.
C18_CardsMatchLatestSnapshot ==
    last.fn = "positions" =>
        IF last.positions = <<>>
        THEN portfolioList.placeholder /\ portfolioList.cards = <<>>
        ELSE /\ ~portfolioList.placeholder
             /\ Len(portfolioList.cards) = Len(last.positions)

C20_SeriesFidelity ==
    (last.fn = "chart" /\ last.series # <<>>) =>
        LET n == Len(last.series)
        IN  /\ last.chart.built
            /\ Len(last.chart.values) = n
            /\ Len(last.chart.labels) = n
            /\ \A i \in 1..n :
                  /\ last.chart.values[i] = last.series[i].value
                  /\ last.chart.labels[i][1] =
                        IF variant = "fn" THEN last.series[i].date
                        ELSE <<last.series[i].date[2], last.series[i].date[3]>>

\* C20 witness: the values 100, 105, 98 were charted as three points in
\* that order.
C20_ThreePointsInOrder ==
    /\ last.fn = "chart"
    /\ last.chart.built
    /\ last.chart.values = <<100, 105, 98>>
    /\ Len(last.chart.labels) = 3

C23_LoadingWhileInFlight ==
    variant = "fn" =>
        ((\E i \in 1..Len(ops) : /\ ops[i].kind \in {"loadAllData", "toggleAI"}
                                 /\ ops[i].pc # "done")
            => loading)

\* C24: under LiveSpec, in the fn variant every loadAllData and every
\* toggleAITrading in flight eventually returns, and whenever state.loading
\* is TRUE it eventually becomes FALSE again, whatever the outcomes.
C24_LoadingEventuallyReleased ==
    /\ \A i \in 1..(MaxEvents + 1) :
          (variant = "fn" /\ Len(ops) >= i /\ ops[i].pc # "done")
              ~> (Len(ops) >= i /\ ops[i].pc = "done")
    /\ (variant = "fn" /\ loading) ~> ~loading

\* C24 witness: a toggleAITrading whose POST was rejected has returned and
\* state.loading is FALSE with nothing left in flight.
C24_ReleasedAfterFailure ==
    /\ variant = "fn"
    /\ ev.kind = "response"
    /\ ev.k = "toggleAI"
    /\ ~ev.ok
    /\ ~loading
    /\ net = {}

\* C25: no double teardown, in the claim's equivalent form: whenever the
\* stored chart handle is set it refers to a chart that is alive (so the
\* destroy() the next render calls on it never hits a destroyed chart).
C25_HandleRefersToLiveChart == equityChart # 0 => equityChart \in charts

\* The handlers a user action starts.
UserActions == {"refresh", "toggle", "switchTab", "closePosition", "buyCoin"}

\* The initial loadAllData has returned.
InitialLoadDone == Len(ops) >= 1 /\ ops[1].pc = "done"

\* C26: the first invocation is the initial loadAllData; the auto-refresh
\* timer exists, and a tick has fired, only after it has returned; in the
\* class variant the listeners are installed, and a user action has been
\* handled, only after it has returned.
C26_StartupOrdering ==
    /\ (Len(ops) >= 1 /\ ops[1].pc # "done") =>
          (ops[1].kind = "loadAllData" /\ ops[1].cause = "init")
    /\ (timers > 0 \/ ev.kind = "tick") => InitialLoadDone
    /\ (variant = "class" /\ (listeners \/ ev.kind \in UserActions))
          => InitialLoadDone

\* C26 witness: the initial load has just returned with its last response
\* and the timer (class: and the listeners) is in place.
C26_StartedAfterInitialLoad ==
    /\ ev.kind = "response"
    /\ ev.ret.cause = "init"
    /\ timers = 1
    /\ listeners

\* C27: the step in which a region's fetch fails changes no stored snapshot
\* and no rendered part, chart included, and the call of the loader the
\* fetch belongs to had rendered nothing before it: the region is as it was
\* when the loader started.
C27_FailureLeavesRegionsUnchanged ==
    [][(/\ ev'.kind = "response"
        /\ ev' # ev
        /\ ~ev'.ok
        /\ LoaderOf(variant, ev'.k) # "none")
         => /\ UNCHANGED <<shown, portfolio, history, signals, equityChart,
                           charts, aiStatus>>
            /\ ~ev'.partial]_vars

\* C21: render idempotence: a render of the snapshot that the previous
\* render of the same region was given changes nothing on the page, for
\* the portfolio header, the positions list, the history list, the
\* statistics and the signal list, whatever was rendered before.
C21_RenderIdempotent ==
    [][(last'.fn # "none" /\ last' = last)
         => (page' = page /\ portfolioList' = portfolioList)]_vars

====
